---- MODULE Spec2Model ----
(***************************************************************************)
(* Model of the Manager class of wow-recorder (src/src/main/preload.ts):   *)
(* the manage()/internalManage() reconciliation loop over the five config  *)
(* stages, the stage configure functions, the game-process start and stop  *)
(* handlers, restartRecorder, refreshStatus, recoverRecorderFromCrash and  *)
(* the video listing (loadAllVideos, correlateVideo).                      *)
(*                                                                         *)
(* JavaScript runs handlers to completion on one thread.  A running async  *)
(* function gives up control only at an await.  Continuations of awaits    *)
(* whose promise is already settled are microtasks and run before any new  *)
(* event (IPC message, timer, engine signal) is dispatched; awaits on real *)
(* I/O (disk check, engine stop, cloud init) let new events in.  An event  *)
(* resumes or starts one invocation only, so no two invocations ever have  *)
(* microtasks pending together: an action here is one event together with  *)
(* the microtasks it leads to, up to the next await on I/O.  The return    *)
(* from internalManage to manage() is kept as a step of its own.           *)
(***************************************************************************)
EXTENDS Integers, Sequences, FiniteSets, TLC

\* ---------------------------------------------------------------- bounds
MaxProcs      == 2   \* manage() invocations that may be suspended at once
MaxCrashes    == 1   \* engine crash notifications per run
MaxCfgChanges == 2   \* edits of the desired configuration per run
MaxEnvChanges == 1   \* changes of the file system state per run
MaxVideos     == 3   \* cloud objects plus disk videos of one listing

\* ---------------------------------------------------------------- stages
NumStages == 5
Stages    == 1..NumStages
StageName == <<"obsBase", "obsVideo", "obsAudio", "flavour", "overlay">>
ObsBase   == 1
ObsVideo  == 2
ObsAudio  == 3
Flavour   == 4
Overlay   == 5

\* Desired configuration values, one small set per stage.
BaseGood  == [storagePath |-> "D:/wr", obsPath |-> "D:/buf",
              cloudStorage |-> FALSE, cloudUpload |-> FALSE]
BaseCloud == [storagePath |-> "D:/wr", obsPath |-> "D:/buf",
              cloudStorage |-> TRUE, cloudUpload |-> TRUE]
BaseEmpty == [storagePath |-> "",      obsPath |-> "D:/buf",
              cloudStorage |-> FALSE, cloudUpload |-> FALSE]
\* Cloud storage without the upload of new videos.
BaseCloudNoUpload == [BaseCloud EXCEPT !.cloudUpload = FALSE]
FlvRetail == [recordRetail |-> TRUE,  recordClassic |-> FALSE]
FlvClassic == [recordRetail |-> FALSE, recordClassic |-> TRUE]
FlvBoth   == [recordRetail |-> TRUE,  recordClassic |-> TRUE]

CfgValues(s) ==
  CASE s = ObsBase -> {BaseGood, BaseCloud, BaseEmpty}
    [] s = Flavour -> {FlvRetail, FlvClassic}
    [] OTHER       -> {[stage |-> s, rev |-> 1]}

\* The configuration the application is started with.
InitCfg == [s \in Stages |->
              CASE s = ObsBase -> BaseGood
                [] s = Flavour -> FlvRetail
                [] OTHER       -> [stage |-> s, rev |-> 1]]

NoConfig == [none |-> TRUE]
NoError  == ""

VARIABLES
  cfg,            \* ConfigService: the desired configuration of each stage
  diskOk,         \* environment: checkDisk() finds enough space
  logOk,          \* environment: validateFlavour() accepts the log paths
  current,        \* stages[i].current
  initial,        \* stages[i].initial
  active,         \* Manager.active
  queued,         \* Manager.queued
  configValid,    \* Manager.configValid
  configMessage,  \* Manager.configMessage
  procs,          \* the manage() invocations that hold the latch
  obsState,       \* recorder.obsState of the current Recorder
  crashes,        \* generation of this.recorder (number of recoveries)
  pollerStarted,  \* poller.start() has been called
  cfgChanges,     \* number of edits made to cfg
  envChanges,     \* number of changes made to diskOk and logOk
  applied,        \* per stage: configure has completed with stages[i].current
                  \* since the current Recorder was constructed
  retailLogHandler,   \* Manager.retailLogHandler
  classicLogHandler,  \* Manager.classicLogHandler
  isWowRunning,   \* poller.isWowRunning
  audioSources,   \* the Recorder has audio sources attached
  wowStart,       \* the onWowStarted invocation
  wowStop,        \* the onWowStopped invocation
  restart,        \* the restartRecorder invocation
  startFailed,    \* a recorder.start() of onWowStarted has rejected
  vid,            \* the loadAllVideos invocation
  force,          \* the forceStop invocation
  clients,        \* Manager.cloudClient, the client of the video process
                  \* queue, and the clients that poll for updates
  crashListener   \* this.recorder has the 'crash' listener attached

vars == <<cfg, diskOk, logOk, current, initial, active, queued, configValid,
          configMessage, procs, obsState, crashes, pollerStarted, cfgChanges,
          envChanges, applied, retailLogHandler, classicLogHandler,
          isWowRunning, audioSources, wowStart, wowStop, restart,
          startFailed, vid, force, clients, crashListener>>

\* What a reconciliation pass neither reads nor writes, apart from
\* poller.isWowRunning, which it reads.
orchVars == <<isWowRunning, wowStart, wowStop, restart, startFailed, vid,
              force, crashListener>>

\* The log handlers and the audio sources.
handlerVars == <<retailLogHandler, classicLogHandler, audioSources>>

Procs == 1..MaxProcs

\* A manage() invocation that is not running.
IdleProc == [pc |-> "idle", i |-> 0, newConfig |-> NoConfig,
             configChanged |-> FALSE, run |-> 0, gen |-> 0,
             validated |-> {}, configured |-> {}, failed |-> 0,
             fromCrash |-> FALSE]

\* No forceStop has been called; calls counts the forceEndActivity calls of
\* the last forceStop.
NoForce == [pc |-> "idle", calls |-> 0]

\* No CloudClient has been constructed: this.cloudClient is undefined
\* (client 0) and the video process queue has none (queue 0).
NoCloud == [client |-> 0, queue |-> 0, polling |-> {}]

\* No loadAllVideos call has been made.
NoListing ==
  [pc |-> "idle", hasCloud |-> FALSE, listFails |-> FALSE, objects |-> <<>>,
   diskFails |-> FALSE, disk |-> <<>>, videos |-> <<>>]

\* No log handler has been constructed: the field is undefined.
NoHandler == [exists |-> FALSE, live |-> FALSE, activity |-> FALSE,
              overrunning |-> FALSE, forcing |-> FALSE]

\* new RetailLogHandler(...) or new ClassicLogHandler(...).
NewHandler == [exists |-> TRUE, live |-> TRUE, activity |-> FALSE,
               overrunning |-> FALSE, forcing |-> FALSE]

\* handler.removeAllListeners(); handler.destroy(): the field keeps
\* referring to the handler.
Destroyed(h) == IF h.exists THEN [h EXCEPT !.live = FALSE] ELSE h

\* An orchestration handler (onWowStarted, onWowStopped, restartRecorder)
\* that is not running.
IdleCall == [pc |-> "idle", gen |-> 0]

\* A comparison that reports every fetched config as changed.
isEqualNever(a, b) == FALSE
\* lodash isEqual on two configs of the same stage: deep value equality.
isEqual(a, b) == a = b

\* ------------------------------------------------------------ validation
\* Manager.validateBaseConfig followed by validateCloudBaseConfig: the
\* reason thrown, or NoError.
validateBaseCfg(config, disk) ==
  IF config.storagePath = "" THEN "Error: Storage path is invalid."
  ELSE IF ~disk THEN "Error: Disk space check failed."
  ELSE IF config.obsPath = "" THEN "Error: Buffer Storage Path is invalid."
  ELSE IF config.storagePath = config.obsPath
       THEN "Error: Storage Path is the same as Buffer Path"
  ELSE NoError

\* validateFlavour of ./util: accepts or rejects the log paths on disk.
validateFlavour(config, log) ==
  IF log THEN NoError ELSE "Error: Invalid log path."

\* stages[s].validate(config): the reason it rejects with, or NoError.
validate(s, config, disk, log) ==
  CASE s = ObsBase -> validateBaseCfg(config, disk)
    [] s = Flavour -> validateFlavour(config, log)
    [] OTHER       -> NoError

\* validateBaseConfig has passed and validateCloudBaseConfig follows
\* (lines 625-627).
ValidatesCloud(s, config, disk) ==
  s = ObsBase /\ validateBaseCfg(config, disk) = NoError /\ config.cloudStorage

\* What validateCloudBaseConfig throws when the store cannot be reached
\* (line 665).
CloudError == "Error: Failed to authenticate with the cloud store."

\* The milliseconds pollInit() is given (line 660).
BombMillis == 2000

\* Does the await on stages[s].validate(config) wait for I/O (so that new
\* events are dispatched before it resumes), or only for a microtask?
ValidateWaitsForIO(s, config) ==
  \/ s = ObsBase /\ config.storagePath # ""
  \/ s = Flavour

\* A suspended invocation whose continuation is already in the microtask
\* queue: it resumes before any new event is dispatched.
Runnable(p) == procs[p].pc = "afterPass"

\* New events are dispatched only when the microtask queue is empty.
EventLoopIdle == \A p \in Procs : ~Runnable(p)

InProgress(p) == procs[p].pc \notin {"idle", "afterPass"}

\* The state the constructor leaves: the fields as declared, and the first
\* manage() suspended at the validate of obsBase (lines 148-172, 227-248).
Constructed(startCfg) ==
  /\ cfg = startCfg
  /\ current = cfg
  /\ initial = [s \in Stages |-> TRUE]
  /\ active = TRUE
  /\ queued = FALSE
  /\ configValid = FALSE
  /\ configMessage = NoError
  /\ procs = [p \in Procs |->
               IF p = 1
               THEN [IdleProc EXCEPT !.pc = "validate", !.i = 1,
                                     !.newConfig = cfg[1], !.run = 1,
                                     !.validated = {1}]
               ELSE IdleProc]
  /\ obsState = "Offline"
  /\ crashes = 0
  /\ pollerStarted = FALSE
  /\ cfgChanges = 0
  /\ envChanges = 0
  /\ applied = [s \in Stages |-> FALSE]
  /\ retailLogHandler = NoHandler
  /\ classicLogHandler = NoHandler
  /\ isWowRunning = FALSE
  /\ audioSources = FALSE
  /\ wowStart = IdleCall
  /\ wowStop = IdleCall
  /\ restart = IdleCall
  /\ startFailed = FALSE
  /\ vid = NoListing
  /\ force = NoForce
  /\ clients = NoCloud
  /\ crashListener = TRUE

Init ==
  /\ diskOk \in BOOLEAN
  /\ logOk \in BOOLEAN
  /\ Constructed(InitCfg)

\* The application is started with a usable disk and usable log paths and
\* with one or both flavours enabled.
InitOrch ==
  /\ diskOk = TRUE
  /\ logOk = TRUE
  /\ \E f \in {FlvRetail, FlvClassic, FlvBoth} :
       Constructed([InitCfg EXCEPT ![Flavour] = f])

\* ------------------------------------------------------- internalManage
\* The part of the Manager that a reconciliation pass reads and writes,
\* with pr the invocation that is running.
Mgr(pr) == [cur |-> current, ini |-> initial, app |-> applied,
            valid |-> configValid, msg |-> configMessage, obs |-> obsState,
            poll |-> pollerStarted, rh |-> retailLogHandler,
            ch |-> classicLogHandler, aud |-> audioSources,
            cloud |-> clients, pr |-> pr]

\* A loop that configures every stage whose validation succeeds.
ShouldConfigureAlways(isInitial, configChanged) == TRUE
\* Does internalManage call stage.configure after a successful validate
\* (line 335)?
ShouldConfigure(isInitial, configChanged) == isInitial \/ configChanged

\* A catch block that leaves the snapshot of the failed stage alone.
CurrentKeptAfterInvalid(cur, newConfig) == cur
\* What the catch block stores in stage.current (line 329).
CurrentAfterInvalid(cur, newConfig) == newConfig

\* What the catch block stores in stage.initial (line 330).
InitialAfterInvalid(isInitial) == FALSE

\* A manage() that reruns internalManage for as long as queued is set.
RunsQueuedPassAgain(run, isQueued) == isQueued
\* Does manage() run a second internalManage once the first has returned
\* (line 271)?
RunsQueuedPass(run, isQueued) == run = 1 /\ isQueued

\* A recovery that leaves Manager.active as it finds it.
ActiveKeptAfterCrash(isActive) == isActive
\* What recoverRecorderFromCrash stores in Manager.active before it calls
\* manage() (line 955).
ActiveAfterCrash(isActive) == FALSE

\* Has the Recorder that recoverRecorderFromCrash leaves in this.recorder
\* the 'crash' listener (lines 947-948)?
ListenerAfterCrash(hasListener) == TRUE

\* What recoverRecorderFromCrash stores in every stage.initial (line 952).
InitialAfterCrash(isInitial) == TRUE

\* The stage the loop turns to after stage s (line 321).
NextStage(s) == s + 1

\* A setConfigValid that leaves the message of the last failure in place.
setConfigValidKeepMessage(m) == [m EXCEPT !.valid = TRUE]
\* setConfigValid (lines 355-359).
setConfigValid(m) == [m EXCEPT !.valid = TRUE, !.msg = NoError]

\* setConfigInvalid (lines 364-368).
setConfigInvalid(m, reason) == [m EXCEPT !.valid = FALSE, !.msg = reason]

\* recorder.stop() is called: a recording engine starts stopping.
StopCalled(state) == IF state = "Recording" THEN "Stopping" ELSE state

\* A stop() requested on Recorder generation gen completes.
StopDone(state, gen) == IF gen = crashes THEN "Offline" ELSE state

\* The position a call of stages[s].configure(config) suspends at: the
\* first await of configureObsBase (line 503) or configureFlavour (line
\* 573), or none ("configure": the call returns a settled promise).
ConfigureAwait(s, state) ==
  CASE s = ObsBase                        -> "cfgBaseStop"
    [] s = Flavour /\ state = "Recording" -> "cfgFlavStop"
    [] OTHER                              -> "configure"

\* configureObsAudio (lines 559-563).
configureObsAudio(m) == [m EXCEPT !.aud = @ \/ isWowRunning]

\* configureFlavour after its stop of the engine: destroy the handlers
\* that exist, construct those the config enables, start the poller
\* (lines 576-610).
configureFlavour(m, config) ==
  [m EXCEPT !.rh = IF config.recordRetail THEN NewHandler ELSE Destroyed(@),
            !.ch = IF config.recordClassic THEN NewHandler ELSE Destroyed(@),
            !.poll = TRUE]

\* The part of stages[s].configure(config) that runs without waiting.
ConfigureNow(m, s) ==
  CASE s = ObsAudio -> configureObsAudio(m)
    [] s = Flavour  -> configureFlavour(m, m.pr.newConfig)
    [] OTHER        -> m

RECURSIVE LoopTop(_, _)
RECURSIVE AfterValidate(_)
RECURSIVE AfterValidateWith(_, _)
RECURSIVE AfterConfigure(_)

\* The loop moves on from stage m.pr.i: the next stage, or setConfigValid()
\* and return (lines 321, 349).
LoopNext(m) ==
  IF NextStage(m.pr.i) <= NumStages
  THEN LoopTop(m, NextStage(m.pr.i))
  ELSE [setConfigValid(m) EXCEPT !.pr.pc = "afterPass"]

\* Top of the loop body for stage s: fetch the desired config, compare it
\* with the snapshot, call stage.validate and await it (lines 322-327).
LoopTop(m, s) ==
  LET newConfig == cfg[s]
      n == [m EXCEPT !.pr.pc = "validate", !.pr.i = s,
                     !.pr.newConfig = newConfig,
                     !.pr.configChanged = ~isEqual(newConfig, m.cur[s]),
                     !.pr.validated = @ \cup {s}]
  IN IF ValidateWaitsForIO(s, newConfig) THEN n ELSE AfterValidate(n)

\* internalManage resumes after await stage.validate(newConfig): the catch
\* block, or the call of stage.configure, or the next stage
\* (lines 328-343).
AfterValidateWith(m, err) ==
  LET pr  == m.pr
      s   == pr.i
  IN
  IF err # NoError
  THEN [setConfigInvalid(m, err) EXCEPT
          !.cur[s] = CurrentAfterInvalid(@, pr.newConfig),
          !.ini[s] = InitialAfterInvalid(@),
          !.app[s] = @ /\ CurrentAfterInvalid(m.cur[s], pr.newConfig) = m.cur[s],
          !.pr.failed = s,
          !.pr.pc = "afterPass"]
  ELSE IF ShouldConfigure(m.ini[s], pr.configChanged)
  THEN LET at == ConfigureAwait(s, m.obs)
           n  == [m EXCEPT !.pr.configured = @ \cup {s}, !.pr.gen = crashes]
       IN IF at = "configure"
          THEN AfterConfigure(ConfigureNow(n, s))
          ELSE [n EXCEPT !.pr.pc = at, !.obs = StopCalled(@)]
  ELSE LoopNext(m)

AfterValidate(m) ==
  AfterValidateWith(m, validate(m.pr.i, m.pr.newConfig, diskOk, logOk))

\* internalManage resumes after await stage.configure(newConfig): store the
\* snapshot, clear initial, go round the loop (lines 344-347).
AfterConfigure(m) ==
  LET s == m.pr.i IN
  LoopNext([m EXCEPT !.cur[s] = m.pr.newConfig,
                     !.ini[s] = FALSE,
                     !.app[s] = TRUE])

\* A fresh internalManage() call by invocation pr, up to its first await.
BeginPass(m, run, crash) ==
  LoopTop([m EXCEPT !.pr.run = run, !.pr.validated = {},
                    !.pr.configured = {}, !.pr.failed = 0,
                    !.pr.fromCrash = crash], 1)

\* The Manager fields as invocation p leaves them.
Commit(p, m) ==
  /\ current' = m.cur
  /\ initial' = m.ini
  /\ applied' = m.app
  /\ configValid' = m.valid
  /\ configMessage' = m.msg
  /\ obsState' = m.obs
  /\ pollerStarted' = m.poll
  /\ retailLogHandler' = m.rh
  /\ classicLogHandler' = m.ch
  /\ audioSources' = m.aud
  /\ clients' = m.cloud
  /\ procs' = [procs EXCEPT ![p] = m.pr]

\* The disk check (or the log path check) of stage.validate completes and
\* internalManage of invocation p resumes.
ValidateDone(p) ==
  /\ procs[p].pc = "validate"
  /\ EventLoopIdle
  /\ IF ValidatesCloud(procs[p].i, procs[p].newConfig, diskOk)
     THEN Commit(p, [Mgr(procs[p]) EXCEPT !.pr.pc = "valCloudInit"])
     ELSE Commit(p, AfterValidate(Mgr(procs[p])))
  /\ UNCHANGED <<cfg, diskOk, logOk, active, queued, crashes, cfgChanges,
                 envChanges>>
  /\ UNCHANGED orchVars

\* validateCloudBaseConfig resumes after await client.init(), which has
\* resolved: pollInit() is raced against the bomb (lines 647-662).
ValCloudInitDone(p) ==
  /\ procs[p].pc = "valCloudInit"
  /\ EventLoopIdle
  /\ Commit(p, [Mgr(procs[p]) EXCEPT !.pr.pc = "valCloudPoll"])
  /\ UNCHANGED <<cfg, diskOk, logOk, active, queued, crashes, cfgChanges,
                 envChanges>>
  /\ UNCHANGED orchVars

\* client.init() has rejected: the validation fails (lines 663-666).
ValCloudInitFailed(p) ==
  /\ procs[p].pc = "valCloudInit"
  /\ EventLoopIdle
  /\ Commit(p, AfterValidateWith(Mgr(procs[p]), CloudError))
  /\ UNCHANGED <<cfg, diskOk, logOk, active, queued, crashes, cfgChanges,
                 envChanges>>
  /\ UNCHANGED orchVars

\* client.pollInit() resolves before the bomb goes off: the validation
\* succeeds.
ValCloudPollDone(p) ==
  /\ procs[p].pc = "valCloudPoll"
  /\ EventLoopIdle
  /\ Commit(p, AfterValidateWith(Mgr(procs[p]), NoError))
  /\ UNCHANGED <<cfg, diskOk, logOk, active, queued, crashes, cfgChanges,
                 envChanges>>
  /\ UNCHANGED orchVars

\* client.pollInit() rejects before the bomb goes off: the validation
\* fails.
ValCloudPollFailed(p) ==
  /\ procs[p].pc = "valCloudPoll"
  /\ EventLoopIdle
  /\ Commit(p, AfterValidateWith(Mgr(procs[p]), CloudError))
  /\ UNCHANGED <<cfg, diskOk, logOk, active, queued, crashes, cfgChanges,
                 envChanges>>
  /\ UNCHANGED orchVars

\* The bomb goes off BombMillis after the race began, pollInit() not having
\* settled: the validation fails.
ValCloudBomb(p) ==
  /\ procs[p].pc = "valCloudPoll"
  /\ EventLoopIdle
  /\ Commit(p, AfterValidateWith(Mgr(procs[p]), CloudError))
  /\ UNCHANGED <<cfg, diskOk, logOk, active, queued, crashes, cfgChanges,
                 envChanges>>
  /\ UNCHANGED orchVars

\* The old cloud client, if there is one, is silenced, stopped and dropped,
\* and the video process queue forgets its client (lines 512-517).
DropCloudClient(c) ==
  IF c.client # 0
  THEN [client |-> 0, queue |-> 0, polling |-> c.polling \ {c.client}]
  ELSE c

\* new CloudClient(...): an object other than the one held before (line 520).
NewCloudClient(c) == IF c.client = 1 \/ 1 \in c.polling THEN 2 ELSE 1

\* this.cloudClient polls for updates and, with cloudUpload, is handed to
\* the video process queue (lines 528-540).
StartCloudClient(c, cloudUpload) ==
  [c EXCEPT !.polling = @ \cup {c.client},
            !.queue = IF cloudUpload THEN c.client ELSE @]

\* configureObsBase resumes after await this.recorder.stop(): drop the old
\* cloud client; with cloudStorage build a new one and await its init(),
\* else configure the engine's base settings and start the poller
\* (lines 504-547).
CfgBaseStopDone(p) ==
  LET m == [Mgr(procs[p]) EXCEPT !.obs = StopDone(@, procs[p].gen),
                                 !.cloud = DropCloudClient(@)]
  IN
  /\ procs[p].pc = "cfgBaseStop"
  /\ EventLoopIdle
  /\ IF procs[p].newConfig.cloudStorage
     THEN Commit(p, [m EXCEPT !.pr.pc = "cfgBaseInit",
                              !.cloud.client = NewCloudClient(clients)])
     ELSE Commit(p, AfterConfigure([m EXCEPT !.poll = TRUE]))
  /\ UNCHANGED <<cfg, diskOk, logOk, active, queued, crashes, cfgChanges,
                 envChanges>>
  /\ UNCHANGED orchVars

\* configureObsBase resumes after await this.cloudClient.init(): start the
\* client held in this.cloudClient, configure the engine's base settings,
\* start the poller (lines 528-547). With this.cloudClient undefined by
\* then, line 528 throws a TypeError that nothing catches and the
\* invocation ends there.
CfgBaseInitDone(p) ==
  /\ procs[p].pc = "cfgBaseInit"
  /\ EventLoopIdle
  /\ IF clients.client = 0
     THEN Commit(p, [Mgr(procs[p]) EXCEPT !.pr = IdleProc])
     ELSE Commit(p, AfterConfigure(
                      [Mgr(procs[p]) EXCEPT
                         !.poll = TRUE,
                         !.cloud = StartCloudClient(
                                     @, procs[p].newConfig.cloudUpload)]))
  /\ UNCHANGED <<cfg, diskOk, logOk, active, queued, crashes, cfgChanges,
                 envChanges>>
  /\ UNCHANGED orchVars

\* this.cloudClient.init() rejects inside configureObsBase (line 526): the
\* rejection passes through stage.configure (line 343), internalManage and
\* manage() (lines 269, 274), none of which catches it; the invocation ends
\* there.
CfgBaseInitFailed(p) ==
  /\ procs[p].pc = "cfgBaseInit"
  /\ EventLoopIdle
  /\ procs' = [procs EXCEPT ![p] = IdleProc]
  /\ UNCHANGED <<cfg, diskOk, logOk, current, initial, active, queued,
                 configValid, configMessage, obsState, crashes,
                 pollerStarted, cfgChanges, envChanges, applied, clients>>
  /\ UNCHANGED handlerVars
  /\ UNCHANGED orchVars

\* configureFlavour resumes after await this.recorder.stop(): rebuild the
\* log handlers, start the poller (lines 576-610).
CfgFlavStopDone(p) ==
  /\ procs[p].pc = "cfgFlavStop"
  /\ EventLoopIdle
  /\ Commit(p, AfterConfigure(ConfigureNow(
                 [Mgr(procs[p]) EXCEPT !.obs = StopDone(@, procs[p].gen)],
                 Flavour)))
  /\ UNCHANGED <<cfg, diskOk, logOk, active, queued, crashes, cfgChanges,
                 envChanges>>
  /\ UNCHANGED orchVars

\* ---------------------------------------------------------------- manage
\* manage() resumes after one of its two await this.internalManage()
\* (lines 271-277).
AfterPass(p) ==
  /\ procs[p].pc = "afterPass"
  /\ IF RunsQueuedPass(procs[p].run, queued)
     THEN /\ queued' = FALSE
          /\ Commit(p, BeginPass(Mgr(procs[p]), procs[p].run + 1, FALSE))
          /\ UNCHANGED active
     ELSE /\ active' = FALSE
          /\ Commit(p, Mgr(IdleProc))
          /\ UNCHANGED queued
  /\ UNCHANGED <<cfg, diskOk, logOk, crashes, cfgChanges, envChanges>>
  /\ UNCHANGED orchVars

\* A manage() that never finds a pass running.
LatchTakenNever(isActive) == FALSE
\* The guard of manage() (line 259).
LatchTaken(isActive) == isActive

HasFreeProc == \E p \in Procs : procs[p].pc = "idle"

\* The slot a new manage() invocation runs in.
FreeProc == CHOOSE p \in Procs :
              /\ procs[p].pc = "idle"
              /\ \A q \in Procs : procs[q].pc = "idle" => p <= q

\* manage() is called by the 'recorder' IPC listener (line 822): record
\* the request if the latch is taken, else take the latch and run
\* internalManage up to its first await (lines 258-269).
ManageCall ==
  /\ EventLoopIdle
  /\ IF LatchTaken(active)
     THEN /\ queued' = TRUE
          /\ UNCHANGED <<active, procs, current, initial, applied, clients,
                         configValid, configMessage, obsState, pollerStarted>>
          /\ UNCHANGED handlerVars
     ELSE /\ HasFreeProc
          /\ active' = TRUE
          /\ Commit(FreeProc, BeginPass(Mgr(IdleProc), 1, FALSE))
          /\ UNCHANGED queued
  /\ UNCHANGED <<cfg, diskOk, logOk, crashes, cfgChanges, envChanges>>
  /\ UNCHANGED orchVars

\* ------------------------------------------------ recoverRecorderFromCrash
\* The 'crash' event of the Recorder: shut it down, destroy the handlers,
\* build a new Recorder, reset the stages and the latch, call manage()
\* (lines 930-958).
RecoverRecorderFromCrash ==
  LET m == [Mgr(IdleProc) EXCEPT
              !.obs = "Offline",
              !.aud = FALSE,
              !.rh = Destroyed(@),
              !.ch = Destroyed(@),
              !.app = [s \in Stages |-> FALSE],
              !.ini = [s \in Stages |-> InitialAfterCrash(initial[s])]]
  IN
  /\ EventLoopIdle
  /\ crashListener
  /\ crashes < MaxCrashes
  /\ HasFreeProc
  /\ crashes' = crashes + 1
  /\ queued' = FALSE
  /\ active' = TRUE
  /\ IF ActiveAfterCrash(active)
     THEN \* manage() finds the latch taken
          /\ procs' = procs
          /\ current' = m.cur /\ initial' = m.ini /\ applied' = m.app
          /\ configValid' = m.valid /\ configMessage' = m.msg
          /\ obsState' = m.obs /\ pollerStarted' = m.poll
          /\ retailLogHandler' = m.rh /\ classicLogHandler' = m.ch
          /\ audioSources' = m.aud
          /\ clients' = m.cloud
     ELSE Commit(FreeProc, BeginPass(m, 1, TRUE))
  /\ crashListener' = ListenerAfterCrash(crashListener)
  /\ UNCHANGED <<cfg, diskOk, logOk, cfgChanges, envChanges>>
  /\ UNCHANGED <<isWowRunning, wowStart, wowStop, restart, startFailed, vid, force>>

\* ---------------------------------------------------------- orchestration
\* recorder.start() is called: an engine that is offline starts up.
StartCalled(state) == IF state = "Offline" THEN "Starting" ELSE state

\* A start() requested on Recorder generation gen resolves (ok) or rejects.
StartDone(state, gen, ok) ==
  IF gen = crashes THEN (IF ok THEN "Recording" ELSE "Offline") ELSE state

\* An onWowStarted without the try and catch around recorder.start().
CallAfterStartUncaught(ok) ==
  IF ok THEN IdleCall ELSE [pc |-> "rejected", gen |-> 0]
\* The onWowStarted invocation after its await of recorder.start(): it
\* returns whether start() resolved or rejected (lines 470-475).
CallAfterStart(ok) == IdleCall

\* The poller reports the game process: onWowStarted attaches the audio
\* sources and calls recorder.start() (lines 465-471).
OnWowStarted ==
  /\ EventLoopIdle
  /\ pollerStarted
  /\ obsState = "Offline"
  /\ wowStart.pc = "idle"
  /\ isWowRunning' = TRUE
  /\ audioSources' = TRUE
  /\ obsState' = StartCalled(obsState)
  /\ wowStart' = [pc |-> "start", gen |-> crashes]
  /\ UNCHANGED <<cfg, diskOk, logOk, current, initial, active, queued,
                 configValid, configMessage, procs, crashes, pollerStarted,
                 cfgChanges, envChanges, applied, clients>>
  /\ UNCHANGED <<retailLogHandler, classicLogHandler, wowStop, restart,
                 startFailed, vid, force, crashListener>>

\* onWowStarted resumes after await this.recorder.start(): the engine
\* records, or start() rejected and the error is logged (lines 471-475).
OnWowStartedDone ==
  /\ EventLoopIdle
  /\ wowStart.pc = "start"
  /\ \E ok \in BOOLEAN :
       /\ obsState' = StartDone(obsState, wowStart.gen, ok)
       /\ startFailed' = (startFailed \/ ~ok)
       /\ wowStart' = CallAfterStart(ok)
  /\ UNCHANGED <<cfg, diskOk, logOk, current, initial, active, queued,
                 configValid, configMessage, procs, crashes, pollerStarted,
                 cfgChanges, envChanges, applied, clients>>
  /\ UNCHANGED <<handlerVars, isWowRunning, wowStop, restart, vid,
                 force, crashListener>>

\* powerMonitor 'resume': the handler starts the poller, whatever the
\* configuration state (lines 919-922).
OnResume ==
  /\ EventLoopIdle
  /\ pollerStarted' = TRUE
  /\ UNCHANGED <<cfg, diskOk, logOk, current, initial, active, queued,
                 configValid, configMessage, procs, obsState, crashes,
                 cfgChanges, envChanges, applied, clients>>
  /\ UNCHANGED handlerVars
  /\ UNCHANGED orchVars

\* The variables of the reconciliation and of the environment, which the
\* orchestration handlers leave alone.
passVars == <<cfg, diskOk, logOk, current, initial, active, queued,
              configValid, configMessage, procs, crashes, pollerStarted,
              cfgChanges, envChanges, applied, clients, crashListener>>

\* A refreshStatus that looks at the retail handler only.
refreshStatusRetailOnly(valid, rh, ch, state) ==
  IF ~valid THEN "InvalidConfig"
  ELSE IF rh.overrunning THEN "Overruning"
  ELSE IF rh.activity THEN "Recording"
  ELSE IF state = "Recording" THEN "ReadyToRecord"
  ELSE IF state \in {"Offline", "Starting", "Stopping"} THEN "WaitingForWoW"
  ELSE "none"
\* The RecStatus that refreshStatus sends to the window, "none" if it
\* sends none (lines 374-400).
refreshStatus(valid, rh, ch, state) ==
  IF ~valid THEN "InvalidConfig"
  ELSE IF rh.overrunning \/ ch.overrunning THEN "Overruning"
  ELSE IF rh.activity \/ ch.activity THEN "Recording"
  ELSE IF state = "Recording" THEN "ReadyToRecord"
  ELSE IF state \in {"Offline", "Starting", "Stopping"} THEN "WaitingForWoW"
  ELSE "none"

\* The status a call of refreshStatus would send now.
Status ==
  refreshStatus(configValid, retailLogHandler, classicLogHandler, obsState)

\* An onWowStopped that stops the engine whatever the handlers report.
WowStoppedAlwaysStop(rh, ch) == "stop"
\* What onWowStopped awaits: the forced end of the retail activity, else
\* of the classic activity, else the stop of the engine (lines 487-496).
WowStoppedBranch(rh, ch) ==
  IF rh.exists /\ rh.activity THEN "forceEndRetail"
  ELSE IF ch.exists /\ ch.activity THEN "forceEndClassic"
  ELSE "stop"

\* handler.forceEndActivity() is called.
ForceEndCalled(h) == [h EXCEPT !.forcing = TRUE]

\* handler.forceEndActivity() completes on the handler it was called on;
\* a handler constructed since is another object.
ForceEndDone(h) ==
  IF h.forcing
  THEN [h EXCEPT !.activity = FALSE, !.overrunning = FALSE, !.forcing = FALSE]
  ELSE h

\* onWowStopped up to its await (lines 482-494).
WowStoppedBegin ==
  LET at == WowStoppedBranch(retailLogHandler, classicLogHandler) IN
  /\ wowStop.pc = "idle"
  /\ wowStop' = [pc |-> at, gen |-> crashes]
  /\ retailLogHandler' = IF at = "forceEndRetail"
                         THEN ForceEndCalled(retailLogHandler)
                         ELSE retailLogHandler
  /\ classicLogHandler' = IF at = "forceEndClassic"
                          THEN ForceEndCalled(classicLogHandler)
                          ELSE classicLogHandler
  /\ obsState' = IF at = "stop" THEN StopCalled(obsState) ELSE obsState
  /\ UNCHANGED <<audioSources, wowStart, restart, startFailed, vid, force>>
  /\ UNCHANGED passVars

\* The poller reports that the game process is gone (line 244).
OnWowStopped ==
  /\ EventLoopIdle
  /\ isWowRunning
  /\ isWowRunning' = FALSE
  /\ WowStoppedBegin

\* powerMonitor 'suspend': the handler calls onWowStopped (lines 914-917).
OnSuspend ==
  /\ EventLoopIdle
  /\ UNCHANGED isWowRunning
  /\ WowStoppedBegin

\* onWowStopped resumes after await handler.forceEndActivity(): detach the
\* audio sources (lines 489, 492).
WowStoppedForceEndDone ==
  /\ EventLoopIdle
  /\ wowStop.pc \in {"forceEndRetail", "forceEndClassic"}
  /\ retailLogHandler' = IF wowStop.pc = "forceEndRetail"
                         THEN ForceEndDone(retailLogHandler)
                         ELSE retailLogHandler
  /\ classicLogHandler' = IF wowStop.pc = "forceEndClassic"
                          THEN ForceEndDone(classicLogHandler)
                          ELSE classicLogHandler
  /\ audioSources' = FALSE
  /\ wowStop' = IdleCall
  /\ UNCHANGED <<obsState, isWowRunning, wowStart, restart, startFailed, vid, force>>
  /\ UNCHANGED passVars

\* onWowStopped resumes after await this.recorder.stop(): detach the audio
\* sources (line 495).
WowStoppedStopDone ==
  /\ EventLoopIdle
  /\ wowStop.pc = "stop"
  /\ obsState' = StopDone(obsState, wowStop.gen)
  /\ audioSources' = FALSE
  /\ wowStop' = IdleCall
  /\ UNCHANGED <<retailLogHandler, classicLogHandler, isWowRunning, wowStart,
                 restart, startFailed, vid, force>>
  /\ UNCHANGED passVars

\* A restartRecorder that does not look at the overrunning flags.
RestartSafeNoOverrunCheck(state, rh, ch) ==
  /\ state = "Recording"
  /\ ~(rh.activity \/ ch.activity)
\* The three checks at the top of restartRecorder (lines 967-988).
RestartSafe(state, rh, ch) ==
  /\ state = "Recording"
  /\ ~(rh.activity \/ ch.activity)
  /\ ~(rh.overrunning \/ ch.overrunning)

\* The five minute timer fires: restartRecorder returns at once, or calls
\* recorder.stop() (lines 966-991).
RestartRecorder ==
  /\ EventLoopIdle
  /\ restart.pc = "idle"
  /\ IF RestartSafe(obsState, retailLogHandler, classicLogHandler)
     THEN /\ restart' = [pc |-> "stop", gen |-> crashes]
          /\ obsState' = StopCalled(obsState)
     ELSE UNCHANGED <<restart, obsState>>
  /\ UNCHANGED <<handlerVars, isWowRunning, wowStart, wowStop, startFailed,
                 vid, force>>
  /\ UNCHANGED passVars

\* restartRecorder resumes after await this.recorder.stop() and calls
\* recorder.cleanup() (lines 991-992).
RestartStopDone ==
  /\ EventLoopIdle
  /\ restart.pc = "stop"
  /\ obsState' = StopDone(obsState, restart.gen)
  /\ restart' = [restart EXCEPT !.pc = "cleanup"]
  /\ UNCHANGED <<handlerVars, isWowRunning, wowStart, wowStop, startFailed,
                 vid, force>>
  /\ UNCHANGED passVars

\* restartRecorder resumes after await this.recorder.cleanup() and calls
\* recorder.start() (lines 992-993).
RestartCleanupDone ==
  /\ EventLoopIdle
  /\ restart.pc = "cleanup"
  /\ obsState' = IF restart.gen = crashes THEN StartCalled(obsState)
                 ELSE obsState
  /\ restart' = [restart EXCEPT !.pc = "start"]
  /\ UNCHANGED <<handlerVars, isWowRunning, wowStart, wowStop, startFailed,
                 vid, force>>
  /\ UNCHANGED passVars

\* restartRecorder resumes after await this.recorder.start() and returns,
\* or start() rejected and so does restartRecorder (lines 993-994).
RestartStartDone ==
  /\ EventLoopIdle
  /\ restart.pc = "start"
  /\ \E ok \in BOOLEAN : obsState' = StartDone(obsState, restart.gen, ok)
  /\ restart' = IdleCall
  /\ UNCHANGED <<handlerVars, isWowRunning, wowStart, wowStop, startFailed,
                 vid, force>>
  /\ UNCHANGED passVars

\* ------------------------------------------------------------ force stop
\* Does forceStop look at the classic handler once it is done with the
\* retail handler? The first variant does so only when the retail handler
\* had no activity, as onWowStopped does.
ForceStopClassicUnlessRetail(retailEnded) == ~retailEnded
ForceStopChecksClassic(retailEnded) == TRUE

\* The second if of forceStop (lines 288-290).
ForceStopClassic(retailEnded, calls) ==
  IF /\ ForceStopChecksClassic(retailEnded)
     /\ classicLogHandler.exists /\ classicLogHandler.activity
  THEN /\ classicLogHandler' = ForceEndCalled(classicLogHandler)
       /\ force' = [pc |-> "forceEndClassic", calls |-> calls + 1]
  ELSE /\ UNCHANGED classicLogHandler
       /\ force' = [pc |-> "idle", calls |-> calls]

\* ipcMain 'recorder' with 'stop': forceStop up to its first await, or to
\* its return when no handler reports an activity (lines 283-291, 815-820).
ForceStop ==
  /\ EventLoopIdle
  /\ force.pc = "idle"
  /\ IF retailLogHandler.exists /\ retailLogHandler.activity
     THEN /\ retailLogHandler' = ForceEndCalled(retailLogHandler)
          /\ force' = [pc |-> "forceEndRetail", calls |-> 1]
          /\ UNCHANGED classicLogHandler
     ELSE /\ UNCHANGED retailLogHandler
          /\ ForceStopClassic(FALSE, 0)
  /\ UNCHANGED <<obsState, audioSources, isWowRunning, wowStart, wowStop,
                 restart, startFailed, vid>>
  /\ UNCHANGED passVars

\* forceStop resumes after await retailLogHandler.forceEndActivity().
ForceStopRetailDone ==
  /\ EventLoopIdle
  /\ force.pc = "forceEndRetail"
  /\ retailLogHandler' = ForceEndDone(retailLogHandler)
  /\ ForceStopClassic(TRUE, force.calls)
  /\ UNCHANGED <<obsState, audioSources, isWowRunning, wowStart, wowStop,
                 restart, startFailed, vid>>
  /\ UNCHANGED passVars

\* forceStop resumes after await classicLogHandler.forceEndActivity() and
\* returns.
ForceStopClassicDone ==
  /\ EventLoopIdle
  /\ force.pc = "forceEndClassic"
  /\ classicLogHandler' = ForceEndDone(classicLogHandler)
  /\ force' = [force EXCEPT !.pc = "idle"]
  /\ UNCHANGED <<retailLogHandler, obsState, audioSources, isWowRunning,
                 wowStart, wowStop, restart, startFailed, vid>>
  /\ UNCHANGED passVars

\* ------------------------------------------------------------ log handlers
\* The handler fields, retail first.
HandlerOf(f) == IF f = "retail" THEN retailLogHandler ELSE classicLogHandler

\* Store handler h in field f.
SetHandler(f, h) ==
  /\ retailLogHandler' = IF f = "retail" THEN h ELSE retailLogHandler
  /\ classicLogHandler' = IF f = "classic" THEN h ELSE classicLogHandler

\* A log handler that watches its log sees an activity start.
ActivityStart ==
  /\ EventLoopIdle
  /\ \E f \in {"retail", "classic"} :
       /\ HandlerOf(f).live
       /\ ~HandlerOf(f).activity
       /\ SetHandler(f, [HandlerOf(f) EXCEPT !.activity = TRUE])
  /\ UNCHANGED <<obsState, audioSources, orchVars>>
  /\ UNCHANGED passVars

\* The activity of a handler has ended in the log and overruns; the
\* handler may or may not still report the activity meanwhile.
OverrunStart ==
  /\ EventLoopIdle
  /\ \E f \in {"retail", "classic"} : \E stillActive \in BOOLEAN :
       /\ HandlerOf(f).live
       /\ HandlerOf(f).activity
       /\ ~HandlerOf(f).overrunning
       /\ SetHandler(f, [HandlerOf(f) EXCEPT !.overrunning = TRUE,
                                             !.activity = stillActive])
  /\ UNCHANGED <<obsState, audioSources, orchVars>>
  /\ UNCHANGED passVars

\* The activity of a handler, or its overrun, is over.
ActivityEnd ==
  /\ EventLoopIdle
  /\ \E f \in {"retail", "classic"} :
       /\ HandlerOf(f).live
       /\ HandlerOf(f).activity \/ HandlerOf(f).overrunning
       /\ SetHandler(f, [HandlerOf(f) EXCEPT !.activity = FALSE,
                                             !.overrunning = FALSE])
  /\ UNCHANGED <<obsState, audioSources, orchVars>>
  /\ UNCHANGED passVars

\* ------------------------------------------------------------ environment
\* The user edits the settings of stage s.
CfgChange ==
  /\ EventLoopIdle
  /\ cfgChanges < MaxCfgChanges
  /\ cfgChanges' = cfgChanges + 1
  /\ \E s \in Stages : \E v \in CfgValues(s) :
       /\ v # cfg[s]
       /\ cfg' = [cfg EXCEPT ![s] = v]
  /\ UNCHANGED <<diskOk, logOk, current, initial, active, queued,
                 configValid, configMessage, procs, obsState, crashes,
                 pollerStarted, envChanges, applied, clients>>
  /\ UNCHANGED <<orchVars, handlerVars>>

\* The user switches the upload of new videos to the cloud on or off.
CloudUploadChange ==
  /\ EventLoopIdle
  /\ cfgChanges < MaxCfgChanges
  /\ cfgChanges' = cfgChanges + 1
  /\ cfg[ObsBase].cloudStorage
  /\ cfg' = [cfg EXCEPT ![ObsBase].cloudUpload = ~@]
  /\ UNCHANGED <<diskOk, logOk, current, initial, active, queued,
                 configValid, configMessage, procs, obsState, crashes,
                 pollerStarted, envChanges, applied, clients>>
  /\ UNCHANGED <<orchVars, handlerVars>>

\* The disk fills up or is freed; a log directory appears or disappears.
EnvChange ==
  /\ EventLoopIdle
  /\ envChanges < MaxEnvChanges
  /\ envChanges' = envChanges + 1
  /\ \/ diskOk' = ~diskOk /\ UNCHANGED logOk
     \/ logOk' = ~logOk /\ UNCHANGED diskOk
  /\ UNCHANGED <<cfg, current, initial, active, queued, configValid,
                 configMessage, procs, obsState, crashes, pollerStarted,
                 cfgChanges, applied, clients>>
  /\ UNCHANGED <<orchVars, handlerVars>>

\* ------------------------------------------------------------ video listing
\* An undefined uniqueHash and an undefined start of a video's metadata.
NoHash == "undefined"
NoStart == -1

Clips == "Clips"

\* The seconds within which two starts belong to the same activity.
CorrelationWindow == 5

\* Metadata of a video: start and mtime in milliseconds, player the rank of
\* the player's name in name order.
Metadata(hash, start, category, player) ==
  [uniqueHash |-> hash, start |-> start, category |-> category,
   player |-> player,
   mtime |-> IF start = NoStart THEN 105000 ELSE start + 1000]

MetadataPool ==
  { Metadata("h1", 100000, "Raids", 2), Metadata("h1", 103000, "Raids", 1),
    Metadata("h1", 107000, "Raids", 2), Metadata("h1", 110000, "Raids", 3),
    Metadata("h1", NoStart, "Raids", 1),
    Metadata(NoHash, 100000, "Raids", 1), Metadata(NoHash, NoStart, "Raids", 2),
    Metadata("h2", 103000, "Raids", 1),
    Metadata("h1", 100000, Clips, 1), Metadata("h1", 103000, Clips, 2) }

\* What the cloud lists: the metadata object of a video, which may fail to
\* load, and an object that is not a metadata object.
ObjectPool ==
  { [json |-> TRUE, fails |-> FALSE, metadata |-> m] : m \in MetadataPool }
    \cup { [json |-> TRUE, fails |-> TRUE,
            metadata |-> Metadata(NoHash, NoStart, "Raids", 1)],
           [json |-> FALSE, fails |-> FALSE,
            metadata |-> Metadata(NoHash, NoStart, "Raids", 1)] }

SeqsUpTo(S, n) == UNION { [1..k -> S] : k \in 0..n }

\* A video as the renderer gets it. The first variant starts with the
\* video as its own point of view.
RendererVideoWithSelf(m, name, cloud) ==
  [name |-> name, cloud |-> cloud, uniqueHash |-> m.uniqueHash,
   start |-> m.start, category |-> m.category, player |-> m.player,
   mtime |-> m.mtime,
   multiPov |-> <<[name |-> name, cloud |-> cloud,
                   uniqueHash |-> m.uniqueHash, start |-> m.start,
                   category |-> m.category, player |-> m.player,
                   mtime |-> m.mtime, multiPov |-> <<>>]>>]
RendererVideo(m, name, cloud) ==
  [name |-> name, cloud |-> cloud, uniqueHash |-> m.uniqueHash,
   start |-> m.start, category |-> m.category, player |-> m.player,
   mtime |-> m.mtime, multiPov |-> <<>>]

Abs(n) == IF n < 0 THEN -n ELSE n

\* A comparison that accepts d1 only when it is not earlier than d2.
areDatesWithinSecondsOneWay(d1, d2, sec) ==
  d1 >= d2 /\ d1 - d2 <= sec * 1000
areDatesWithinSeconds(d1, d2, sec) == Abs(d1 - d2) <= sec * 1000

\* The starts of the two videos are close. The first variant takes the
\* hash for enough.
closeStartTimeAlways(video, videoToCompare) == TRUE
closeStartTime(video, videoToCompare) ==
  areDatesWithinSeconds(video.start, videoToCompare.start, CorrelationWindow)

\* The video lacks a field that correlation needs. The first variant asks
\* for both to be missing.
CannotCorrelateLacksBoth(video) ==
  video.uniqueHash = NoHash /\ video.start = NoStart
CannotCorrelate(video) ==
  video.uniqueHash = NoHash \/ video.start = NoStart

\* The video is another point of view of videoToCompare: a pass of the loop
\* of correlateVideo that reaches the push. The first variant correlates
\* clips with other categories.
CorrelatesAnyCategory(video, videoToCompare) ==
  /\ videoToCompare.uniqueHash = video.uniqueHash
  /\ videoToCompare.start # NoStart
  /\ closeStartTime(video, videoToCompare)
Correlates(video, videoToCompare) ==
  /\ (videoToCompare.category = Clips) = (video.category = Clips)
  /\ videoToCompare.uniqueHash = video.uniqueHash
  /\ videoToCompare.start # NoStart
  /\ closeStartTime(video, videoToCompare)

\* The entry the loop stops at. The first variant goes on to the last match.
LastMatch(hits) == CHOOSE h \in hits : \A g \in hits : h >= g
FirstMatch(hits) == CHOOSE h \in hits : \A g \in hits : h <= g

\* videos[i].multiPov.push(video). The first variant makes the video the
\* entry and the entry its child.
AttachAsParent(videos, i, video) ==
  [videos EXCEPT ![i] = [video EXCEPT !.multiPov =
                           <<[videos[i] EXCEPT !.multiPov = <<>>]>>
                             \o videos[i].multiPov]]
AttachChild(videos, i, video) ==
  [videos EXCEPT ![i].multiPov = Append(@, video)]

\* A fallback that pushes the video whether or not it was correlated.
PushAlways(correlated, videos, video) == Append(videos, video)
\* The fallback at the end of correlateVideo (lines 1079-1083).
PushUnlessCorrelated(correlated, videos, video) ==
  IF correlated THEN videos ELSE Append(videos, video)

\* The list of videos after correlateVideo(video, videos). The first
\* variant looks for a parent of every video.
correlateVideoNoEarlyReturn(video, videos) ==
  LET hits == { i \in 1..Len(videos) :
                  /\ (videos[i].category = Clips) = (video.category = Clips)
                  /\ videos[i].uniqueHash = video.uniqueHash }
  IN  IF hits = {} THEN Append(videos, video)
      ELSE AttachChild(videos, FirstMatch(hits), video)
correlateVideo(video, videos) ==
  IF CannotCorrelate(video) THEN Append(videos, video)
  ELSE LET hits == { i \in 1..Len(videos) : Correlates(video, videos[i]) }
       IN  PushUnlessCorrelated(
             hits # {},
             IF hits = {} THEN videos
             ELSE AttachChild(videos, FirstMatch(hits), video),
             video)

\* list.forEach((video) => Manager.correlateVideo(video, videos))
RECURSIVE CorrelateAll(_, _)
CorrelateAll(list, videos) ==
  IF list = <<>> THEN videos
  ELSE CorrelateAll(Tail(list), correlateVideo(Head(list), videos))

\* The start of a video, or its mtime when it has none.
SortMetric(v) == IF v.start # NoStart /\ v.start # 0 THEN v.start ELSE v.mtime

\* Negative when A comes before B: most recent first for videos, by player
\* for children.
reverseChronologicalVideoSort(A, B) == SortMetric(B) - SortMetric(A)
povNameSort(A, B) == A.player - B.player

\* The comparators by name.
Compare(cmp, A, B) ==
  IF cmp = "reverseChronologicalVideoSort"
  THEN reverseChronologicalVideoSort(A, B)
  ELSE povNameSort(A, B)

\* Insert x into the sorted s after every element that is not after it.
RECURSIVE InsertVideo(_, _, _)
InsertVideo(x, s, cmp) ==
  IF s = <<>> THEN <<x>>
  ELSE IF Compare(cmp, Head(s), x) <= 0
       THEN <<Head(s)>> \o InsertVideo(x, Tail(s), cmp)
       ELSE <<x>> \o s

\* Array.prototype.sort, which is stable.
RECURSIVE SortVideos(_, _)
SortVideos(s, cmp) ==
  IF s = <<>> THEN <<>>
  ELSE InsertVideo(s[Len(s)], SortVideos(SubSeq(s, 1, Len(s) - 1), cmp), cmp)

\* The result of loadVideoDetailsCloud for the k-th listed object.
loadVideoDetailsCloud(obj, k) ==
  IF obj.fails THEN <<"Error", k>>
  ELSE <<"RendererVideo", RendererVideo(obj.metadata, <<"cloud", k>>, TRUE)>>

\* The videos loadAllVideosCloud returns once the objects are listed. The
\* first variant lets one failing object fail them all.
loadAllVideosCloudAllOrNothing(objects) ==
  LET keyed == [k \in 1..Len(objects) |-> <<objects[k], k>>]
      jsons == SelectSeq(keyed, LAMBDA o : o[1].json)
      results == [k \in 1..Len(jsons) |->
                    loadVideoDetailsCloud(jsons[k][1], jsons[k][2])]
  IN  IF \E k \in 1..Len(results) : results[k][1] = "Error" THEN <<>>
      ELSE [k \in 1..Len(results) |-> results[k][2]]
loadAllVideosCloud(objects) ==
  LET keyed == [k \in 1..Len(objects) |-> <<objects[k], k>>]
      jsons == SelectSeq(keyed, LAMBDA o : o[1].json)
      results == [k \in 1..Len(jsons) |->
                    loadVideoDetailsCloud(jsons[k][1], jsons[k][2])]
      videoDetails == SelectSeq(results, LAMBDA r : r[1] # "Error")
  IN  [k \in 1..Len(videoDetails) |-> videoDetails[k][2]]

\* The videos loadAllVideosDisk returns.
loadAllVideosDisk(disk) ==
  [j \in 1..Len(disk) |-> RendererVideo(disk[j], <<"disk", j>>, FALSE)]

\* What a listing neither reads nor writes.
listingUnchanged ==
  <<passVars, handlerVars, obsState, isWowRunning, wowStart, wowStop,
    restart, startFailed, force>>

\* loadAllVideos is called, with or without a cloud client, and runs up to
\* its first await; what the cloud and the disk hold, and whether they can
\* be listed, is chosen here. Every call builds its list afresh, so one call
\* is followed to its return.
LoadAllVideos ==
  /\ vid.pc = "idle"
  /\ \E hasCloud \in BOOLEAN, listFails \in BOOLEAN, diskFails \in BOOLEAN :
     \E objects \in SeqsUpTo(ObjectPool, MaxVideos) :
     \E disk \in SeqsUpTo(MetadataPool, MaxVideos - Len(objects)) :
       /\ ~hasCloud => objects = <<>> /\ ~listFails
       /\ diskFails => disk = <<>>
       /\ vid' = [pc |-> IF hasCloud THEN "list" ELSE "disk",
                  hasCloud |-> hasCloud, listFails |-> listFails,
                  objects |-> objects, diskFails |-> diskFails,
                  disk |-> disk, videos |-> <<>>]
  /\ UNCHANGED listingUnchanged

\* cloudClient.list() settles: a failure yields no cloud videos.
CloudListDone ==
  /\ vid.pc = "list"
  /\ vid' = [vid EXCEPT !.pc = IF vid.listFails THEN "disk" ELSE "details"]
  /\ UNCHANGED listingUnchanged

\* Every loadVideoDetailsCloud has settled: the cloud videos are
\* correlated.
CloudDetailsDone ==
  /\ vid.pc = "details"
  /\ vid' = [vid EXCEPT !.pc = "disk",
                        !.videos = CorrelateAll(loadAllVideosCloud(vid.objects),
                                                vid.videos)]
  /\ UNCHANGED listingUnchanged

\* loadAllVideosDisk rejects: its await is in no try block, so
\* loadAllVideos rejects and returns no list.
DiskListRejected ==
  /\ vid.pc = "disk"
  /\ vid.diskFails
  /\ vid' = [vid EXCEPT !.pc = "rejected", !.videos = <<>>]
  /\ UNCHANGED listingUnchanged

\* loadAllVideosDisk settles: the disk videos are correlated, the videos
\* and the children of each are sorted and returned.
DiskListDone ==
  /\ vid.pc = "disk"
  /\ ~vid.diskFails
  /\ LET videos == CorrelateAll(loadAllVideosDisk(vid.disk), vid.videos)
         sorted == SortVideos(videos, "reverseChronologicalVideoSort")
     IN  vid' = [vid EXCEPT
                   !.pc = "done",
                   !.videos = [i \in 1..Len(sorted) |->
                                 [sorted[i] EXCEPT
                                    !.multiPov = SortVideos(@, "povNameSort")]]]
  /\ UNCHANGED listingUnchanged

\* Reconciliation with engine crashes; the game process is not detected and
\* the cloud store answers.
Next ==
  \/ \E p \in Procs : ValidateDone(p)
  \/ \E p \in Procs : ValCloudInitDone(p)
  \/ \E p \in Procs : ValCloudPollDone(p)
  \/ \E p \in Procs : CfgBaseStopDone(p)
  \/ \E p \in Procs : CfgBaseInitDone(p)
  \/ \E p \in Procs : AfterPass(p)
  \/ ManageCall
  \/ RecoverRecorderFromCrash
  \/ CfgChange
  \/ EnvChange

Spec == Init /\ [][Next]_vars

\* Reconciliation while the game process comes up and the engine records;
\* the engine does not crash.
NextGame ==
  \/ \E p \in Procs : ValidateDone(p)
  \/ \E p \in Procs : ValCloudInitDone(p)
  \/ \E p \in Procs : ValCloudPollDone(p)
  \/ \E p \in Procs : CfgBaseStopDone(p)
  \/ \E p \in Procs : CfgBaseInitDone(p)
  \/ \E p \in Procs : CfgFlavStopDone(p)
  \/ \E p \in Procs : AfterPass(p)
  \/ ManageCall
  \/ OnWowStarted
  \/ OnWowStartedDone
  \/ OnResume
  \/ CfgChange
  \/ EnvChange

SpecGame == Init /\ [][NextGame]_vars

\* The engine, the game process, the power monitor, the restart timer and
\* the log handlers, with the pass that the constructor starts; the
\* settings are not edited and the engine does not crash.
NextOrch ==
  \/ \E p \in Procs : ValidateDone(p)
  \/ \E p \in Procs : CfgBaseStopDone(p)
  \/ \E p \in Procs : CfgFlavStopDone(p)
  \/ \E p \in Procs : AfterPass(p)
  \/ OnWowStarted
  \/ OnWowStartedDone
  \/ OnWowStopped
  \/ OnSuspend
  \/ WowStoppedForceEndDone
  \/ WowStoppedStopDone
  \/ RestartRecorder
  \/ RestartStopDone
  \/ RestartCleanupDone
  \/ RestartStartDone
  \/ ActivityStart
  \/ OverrunStart
  \/ ActivityEnd

SpecOrch == InitOrch /\ [][NextOrch]_vars

\* Engine crashes while log handlers exist and report activities.
NextRecover ==
  \/ \E p \in Procs : ValidateDone(p)
  \/ \E p \in Procs : CfgBaseStopDone(p)
  \/ \E p \in Procs : AfterPass(p)
  \/ ManageCall
  \/ RecoverRecorderFromCrash
  \/ ActivityStart

SpecRecover == InitOrch /\ [][NextRecover]_vars

\* The application after construction, with a usable disk and usable log
\* paths.
InitVideos ==
  /\ diskOk = TRUE
  /\ logOk = TRUE
  /\ Constructed(InitCfg)

\* The renderer asks for the list of videos.
NextVideos ==
  \/ LoadAllVideos
  \/ CloudListDone
  \/ CloudDetailsDone
  \/ DiskListDone
  \/ DiskListRejected

SpecVideos == InitVideos /\ [][NextVideos]_vars

\* The force stop button while the watchers see activities come and go.
NextForce ==
  \/ \E p \in Procs : ValidateDone(p)
  \/ \E p \in Procs : CfgBaseStopDone(p)
  \/ \E p \in Procs : AfterPass(p)
  \/ OnWowStarted
  \/ OnWowStartedDone
  \/ ActivityStart
  \/ OverrunStart
  \/ ActivityEnd
  \/ ForceStop
  \/ ForceStopRetailDone
  \/ ForceStopClassicDone

SpecForce == InitOrch /\ [][NextForce]_vars

\* The settings are edited while the engine records and the log handlers
\* see activities come and go.
NextEdit ==
  \/ \E p \in Procs : ValidateDone(p)
  \/ \E p \in Procs : CfgBaseStopDone(p)
  \/ \E p \in Procs : CfgFlavStopDone(p)
  \/ \E p \in Procs : AfterPass(p)
  \/ ManageCall
  \/ CfgChange
  \/ OnWowStarted
  \/ OnWowStartedDone
  \/ ActivityStart
  \/ ActivityEnd

SpecEdit == InitOrch /\ [][NextEdit]_vars

\* The application is started with cloud storage enabled.
InitCloud ==
  /\ diskOk = TRUE
  /\ logOk = TRUE
  /\ Constructed([InitCfg EXCEPT ![ObsBase] = BaseCloud])

\* Reconciliation with a cloud store that may answer, fail or stay silent.
NextCloud ==
  \/ \E p \in Procs : ValidateDone(p)
  \/ \E p \in Procs : ValCloudInitDone(p)
  \/ \E p \in Procs : ValCloudInitFailed(p)
  \/ \E p \in Procs : ValCloudPollDone(p)
  \/ \E p \in Procs : ValCloudPollFailed(p)
  \/ \E p \in Procs : ValCloudBomb(p)
  \/ \E p \in Procs : CfgBaseStopDone(p)
  \/ \E p \in Procs : CfgBaseInitDone(p)
  \/ \E p \in Procs : CfgBaseInitFailed(p)
  \/ \E p \in Procs : AfterPass(p)
  \/ ManageCall
  \/ CfgChange

SpecCloud == InitCloud /\ [][NextCloud]_vars

\* Cloud storage in use while the upload setting is edited and the engine
\* crashes.
NextUpload ==
  \/ \E p \in Procs : ValidateDone(p)
  \/ \E p \in Procs : ValCloudInitDone(p)
  \/ \E p \in Procs : ValCloudPollDone(p)
  \/ \E p \in Procs : CfgBaseStopDone(p)
  \/ \E p \in Procs : CfgBaseInitDone(p)
  \/ \E p \in Procs : AfterPass(p)
  \/ ManageCall
  \/ RecoverRecorderFromCrash
  \/ CloudUploadChange

SpecUpload == InitCloud /\ [][NextUpload]_vars

TypeOK ==
  /\ active \in BOOLEAN /\ queued \in BOOLEAN /\ configValid \in BOOLEAN
  /\ \A s \in Stages : cfg[s] \in CfgValues(s) \cup {FlvBoth, BaseCloudNoUpload}
  /\ \A s \in Stages : current[s] \in CfgValues(s) \cup {FlvBoth, BaseCloudNoUpload}
  /\ clients.client \in 0..2 /\ clients.queue \in 0..2
  /\ clients.polling \subseteq 1..2
  /\ obsState \in {"Offline", "Starting", "Recording", "Stopping"}

\* ============================================================ properties
\* Positions inside a stage's configure function.
ConfigurePcs == {"cfgBaseStop", "cfgBaseInit", "cfgFlavStop"}

\* The awaits inside stage.validate.
ValidatePcs == {"validate", "valCloudInit", "valCloudPoll"}

\* C1: at most one reconciliation pass (internalManage) is in progress in
\* every reachable state, whoever called manage().
C1_OnePassInProgress ==
  Cardinality({p \in Procs : InProgress(p)}) <= 1

C3_FailedValidationAborts ==
  \A p \in Procs :
    (procs[p].pc = "afterPass" /\ procs[p].failed # 0) =>
      LET s == procs[p].failed IN
      /\ procs[p].configured \cap (s..NumStages) = {}
      /\ procs[p].validated \cap ((s + 1)..NumStages) = {}
      /\ procs[p].validated = 1..s
      /\ current[s] = procs[p].newConfig
      /\ ~configValid
      /\ configMessage # NoError
      /\ configMessage = validate(s, procs[p].newConfig, diskOk, logOk)

\* C3 witness: validation failed at the flavour stage, on a value that
\* differs from the snapshot, after the three earlier stages were applied.
C3_Witness ==
  \E p \in Procs :
    /\ procs[p].pc = "afterPass"
    /\ procs[p].failed = Flavour
    /\ procs[p].configChanged
    /\ procs[p].configured = {ObsBase, ObsVideo, ObsAudio}

\* C4: when the pass that recoverRecorderFromCrash starts ends without a
\* validation failure, configure has been called for every stage on the new
\* engine instance.
C4_RecoveryPassConfiguresAll ==
  \A p \in Procs :
    (procs[p].pc = "afterPass" /\ procs[p].fromCrash /\ procs[p].failed = 0)
      => \A s \in Stages : applied[s]

C6_InitialClearedOnlyByApply ==
  [][\A s \in Stages : (initial[s] /\ ~initial'[s]) => applied'[s]]_vars

\* C7: within a pass a stage's apply starts only after every earlier stage
\* was validated and applied or skipped, and no two stage applies are in
\* progress at the same time.
C7_AppliesSequential ==
  /\ Cardinality({p \in Procs : procs[p].pc \in ConfigurePcs}) <= 1
  /\ \A p \in Procs :
       procs[p].pc \in ConfigurePcs =>
         /\ procs[p].validated = 1..procs[p].i
         /\ procs[p].configured \subseteq 1..procs[p].i

\* C8: Valid is set only at the end of a pass that reached every stage
\* with no validation failure; Valid comes with an empty message; a pass
\* ended by a validation failure leaves Invalid with that failure's reason.
C8_ValidOnlyAfterFullPass ==
  /\ [](configValid => configMessage = NoError)
  /\ [](\A p \in Procs :
          procs[p].pc = "afterPass" =>
            IF procs[p].failed = 0
            THEN configValid /\ procs[p].validated = Stages
            ELSE /\ ~configValid
                 /\ configMessage = validate(procs[p].failed,
                                             procs[p].newConfig, diskOk, logOk)
                 /\ configMessage # NoError)
  /\ [][(~configValid /\ configValid') =>
          \E p \in Procs :
            /\ procs[p].pc # "afterPass"
            /\ procs'[p].pc = "afterPass"
            /\ procs'[p].failed = 0
            /\ procs'[p].validated = Stages]_vars

\* C8 witness: a pass ends Valid after an earlier failure had stored a
\* reason (the failed stage's snapshot lost its initial flag unapplied).
C8_Witness ==
  \E p \in Procs :
    /\ procs[p].pc = "afterPass"
    /\ procs[p].failed = 0
    /\ configValid
    /\ \E s \in Stages : ~initial[s] /\ ~applied[s]

\* The stage whose validate rejects with the given reason.
FailedStage(reason) ==
  IF reason = validateFlavour(FlvRetail, FALSE) THEN Flavour ELSE ObsBase

\* C9: after a validation failure at stage i, a pass that re-applies the
\* corrected stage i and validates every stage ends Valid with the error
\* cleared and with stage i and every later stage applied.
C9_RecoveryAppliesAll ==
  [][\A p \in Procs :
       ( /\ crashes = 0 /\ crashes' = 0
         /\ ~configValid /\ configMessage # NoError
         /\ procs[p].pc # "afterPass"
         /\ procs'[p].pc = "afterPass"
         /\ procs'[p].failed = 0
         /\ FailedStage(configMessage) \in procs'[p].configured )
       => /\ configValid'
          /\ configMessage' = NoError
          /\ \A s \in FailedStage(configMessage)..NumStages : applied'[s]]_vars

\* C10: while no stage is initial and no desired config differs from its
\* snapshot, no step of a pass calls a configure, changes a snapshot or an
\* initial flag, or stops or starts the engine; every stage it fetches
\* compares as unchanged.
C10_QuietPassChangesNothing ==
  [][\A p \in Procs :
       ( /\ procs'[p] # procs[p]
         /\ crashes' = crashes
         /\ procs[p].pc \notin ConfigurePcs
         /\ \A s \in Stages : ~initial[s] /\ cfg[s] = current[s]
         /\ procs[p].pc \in ValidatePcs =>
              (~procs[p].configChanged /\ procs[p].newConfig = cfg[procs[p].i]) )
       => /\ current' = current
          /\ initial' = initial
          /\ obsState' = obsState
          /\ procs'[p].pc \notin ConfigurePcs
          /\ procs'[p].pc \in ValidatePcs =>
               /\ ~procs'[p].configChanged
               /\ procs'[p].newConfig = cfg[procs'[p].i]
          /\ procs'[p].pc \in ValidatePcs \cup {"afterPass"} =>
               procs'[p].configured = {}
                 \/ procs'[p].configured = procs[p].configured]_vars

\* C10 witness: a pass has ended having validated every stage and
\* configured none, and the engine is still recording.
C10_Witness ==
  \E p \in Procs :
    /\ procs[p].pc = "afterPass"
    /\ procs[p].failed = 0
    /\ procs[p].validated = Stages
    /\ procs[p].configured = {}
    /\ obsState = "Recording"

C12_RestartOnlyWhenSafe ==
  [][(restart.pc = "idle" /\ restart'.pc # "idle") =>
       /\ obsState = "Recording"
       /\ ~retailLogHandler.activity /\ ~classicLogHandler.activity
       /\ ~retailLogHandler.overrunning /\ ~classicLogHandler.overrunning
       /\ restart'.pc = "stop"
       /\ obsState' = "Stopping"]_vars

\* C12 witness: a restart is under way, the engine stopped and being
\* cleaned up, with a log handler in place.
C12_Witness ==
  /\ restart.pc = "cleanup"
  /\ obsState = "Offline"
  /\ retailLogHandler.live \/ classicLogHandler.live

\* C13: the status is one of the five, decided with the priority
\* InvalidConfig, Overruning, Recording, ReadyToRecord (engine Recording),
\* WaitingForWoW (engine Offline, Starting or Stopping); the flag of either
\* handler suffices.
C13_StatusTotalWithPriority ==
  LET over == retailLogHandler.overrunning \/ classicLogHandler.overrunning
      act  == retailLogHandler.activity \/ classicLogHandler.activity
  IN
  /\ Status \in {"InvalidConfig", "Overruning", "Recording",
                  "ReadyToRecord", "WaitingForWoW"}
  /\ Status = "InvalidConfig" <=> ~configValid
  /\ Status = "Overruning" <=> (configValid /\ over)
  /\ Status = "Recording" <=> (configValid /\ ~over /\ act)
  /\ Status = "ReadyToRecord" <=>
       (configValid /\ ~over /\ ~act /\ obsState = "Recording")
  /\ Status = "WaitingForWoW" <=>
       (configValid /\ ~over /\ ~act
          /\ obsState \in {"Offline", "Starting", "Stopping"})

\* C13 witness: both handlers exist, only the classic one overruns, and
\* the engine is Recording: the status is Overruning.
C13_Witness ==
  /\ configValid
  /\ retailLogHandler.live /\ classicLogHandler.live
  /\ ~retailLogHandler.overrunning /\ ~retailLogHandler.activity
  /\ classicLogHandler.overrunning
  /\ obsState = "Recording"
  /\ Status = "Overruning"

\* C14: when the recorder.start() of onWowStarted rejects, onWowStarted
\* returns, a status of WaitingForWoW stays WaitingForWoW, and the next
\* report of the game process can call start() again.
C14_StartFailureCaught ==
  [][( /\ wowStart.pc = "start" /\ wowStart'.pc # "start"
       /\ obsState = "Starting" /\ obsState' # "Recording" )
     => /\ wowStart'.pc = "idle"
        /\ obsState' = "Offline"
        /\ pollerStarted'
        /\ Status = "WaitingForWoW" => Status' = "WaitingForWoW"
        /\ Status' # "ReadyToRecord"]_vars

\* C14 witness: after a start() that rejected, onWowStarted runs again and
\* awaits start(); the status is WaitingForWoW.
C14_Witness ==
  /\ startFailed
  /\ wowStart.pc = "start"
  /\ obsState = "Starting"
  /\ Status = "WaitingForWoW"

LoadedVideos ==
  (IF vid.hasCloud /\ ~vid.listFails THEN loadAllVideosCloud(vid.objects)
   ELSE <<>>) \o loadAllVideosDisk(vid.disk)

\* The listing has returned and had two videos to correlate, with the same
\* hash, the same category other than Clips, and a start each.
C17_Pair ==
  /\ vid.pc = "done"
  /\ Len(LoadedVideos) = 2
  /\ LET a == LoadedVideos[1]
         b == LoadedVideos[2]
     IN  /\ a.uniqueHash = b.uniqueHash /\ a.uniqueHash # NoHash
         /\ a.category = b.category /\ a.category # Clips
         /\ a.start # NoStart /\ b.start # NoStart

\* C17, as the code has it: two videos with the same hash and the same
\* category other than Clips whose starts are 3 seconds apart are listed as
\* one top-level entry, the first of the two, with the second as its only
\* child; when their starts are 10 seconds apart they are listed as two
\* top-level entries without children.
C17_CloseStartsMerge ==
  C17_Pair =>
    LET a == LoadedVideos[1]
        b == LoadedVideos[2]
    IN  /\ Abs(a.start - b.start) = 3000 =>
             /\ Len(vid.videos) = 1
             /\ vid.videos[1].name = a.name
             /\ Len(vid.videos[1].multiPov) = 1
             /\ vid.videos[1].multiPov[1].name = b.name
        /\ Abs(a.start - b.start) = 10000 =>
             /\ Len(vid.videos) = 2
             /\ \A i \in 1..2 : vid.videos[i].multiPov = <<>>

\* C17, as stated: the merged entry has two children.
C17_MergedEntryHasTwoChildren ==
  C17_Pair =>
    LET a == LoadedVideos[1]
        b == LoadedVideos[2]
    IN  /\ Abs(a.start - b.start) = 3000 =>
             /\ Len(vid.videos) = 1
             /\ Len(vid.videos[1].multiPov) = 2
        /\ Abs(a.start - b.start) = 10000 =>
             /\ Len(vid.videos) = 2

\* A listing of a cloud video and a disk video 3 seconds apart has merged
\* them.
C17_Witness ==
  /\ C17_Pair
  /\ LoadedVideos[1].cloud /\ ~LoadedVideos[2].cloud
  /\ Abs(LoadedVideos[1].start - LoadedVideos[2].start) = 3000
  /\ Len(vid.videos) = 1

\* A listing of two videos 10 seconds apart has kept them apart.
C17_WitnessApart ==
  /\ C17_Pair
  /\ Abs(LoadedVideos[1].start - LoadedVideos[2].start) = 10000
  /\ Len(vid.videos) = 2

\* C18: whatever the videos and their order, a top-level entry of category
\* Clips has only children of category Clips, and an entry of another
\* category has no child of category Clips.
C18_ClipsOnlyWithClips ==
  \A i \in 1..Len(vid.videos) :
    \A c \in 1..Len(vid.videos[i].multiPov) :
      (vid.videos[i].category = Clips)
        = (vid.videos[i].multiPov[c].category = Clips)

\* A clip has become the child of a clip while a video of another category
\* with the same hash and a start within the window is an entry of its own.
C18_Witness ==
  /\ vid.pc = "done"
  /\ \E i, j \in 1..Len(vid.videos) :
       /\ vid.videos[i].category = Clips
       /\ Len(vid.videos[i].multiPov) = 1
       /\ vid.videos[j].category # Clips
       /\ vid.videos[j].multiPov = <<>>
       /\ vid.videos[j].uniqueHash = vid.videos[i].uniqueHash
       /\ vid.videos[j].start # NoStart
       /\ areDatesWithinSeconds(vid.videos[j].start,
                                vid.videos[i].multiPov[1].start,
                                CorrelationWindow)

\* The video has neither a hash nor a start.
NoHashNoStart(v) == v.uniqueHash = NoHash /\ v.start = NoStart

\* C19: a video with no start and no hash is never the child of an entry,
\* and when the listing returns it is a top-level entry.
C19_UncorrelatableIsTopLevel ==
  /\ \A i \in 1..Len(vid.videos) :
       \A c \in 1..Len(vid.videos[i].multiPov) :
         ~NoHashNoStart(vid.videos[i].multiPov[c])
  /\ vid.pc = "done" =>
       \A k \in 1..Len(LoadedVideos) :
         NoHashNoStart(LoadedVideos[k]) =>
           \E i \in 1..Len(vid.videos) :
             vid.videos[i].name = LoadedVideos[k].name

\* A video with no start and no hash, listed after a video that has no
\* hash either, is a top-level entry of the returned list.
C19_Witness ==
  /\ vid.pc = "done"
  /\ \E k \in 2..Len(LoadedVideos) :
       /\ NoHashNoStart(LoadedVideos[k])
       /\ LoadedVideos[k - 1].uniqueHash = NoHash
       /\ \E i \in 1..Len(vid.videos) :
            vid.videos[i].name = LoadedVideos[k].name

\* The names of the cloud videos whose details load: none when there is no
\* cloud client or when the cloud cannot be listed.
LoadableCloudNames ==
  IF vid.hasCloud /\ ~vid.listFails
  THEN { <<"cloud", k>> : k \in { n \in 1..Len(vid.objects) :
                                   vid.objects[n].json
                                     /\ ~vid.objects[n].fails } }
  ELSE {}

DiskNames == { <<"disk", j>> : j \in 1..Len(vid.disk) }

\* The positions of the children in the list.
ChildPositions ==
  UNION { { <<i, c>> : c \in 1..Len(vid.videos[i].multiPov) } :
            i \in 1..Len(vid.videos) }

\* The names of the entries and of their children.
ListedNames ==
  { vid.videos[i].name : i \in 1..Len(vid.videos) }
    \cup { vid.videos[p[1]].multiPov[p[2]].name : p \in ChildPositions }

\* C20: the returned list holds, as entries or children, each once, exactly
\* the cloud videos whose details loaded and the disk videos, whichever
\* cloud objects failed; the cloud videos are merged first, so that no cloud
\* video is the child of a disk video.
C20_ListingResilientPerItem ==
  vid.pc = "done" =>
    /\ ListedNames = LoadableCloudNames \cup DiskNames
    /\ Len(vid.videos) + Cardinality(ChildPositions)
         = Cardinality(LoadableCloudNames \cup DiskNames)
    /\ \A p \in ChildPositions :
         vid.videos[p[1]].multiPov[p[2]].cloud => vid.videos[p[1]].cloud

\* The details of one cloud object failed to load, and the returned list
\* has a cloud video with a disk video as its child.
C20_Witness ==
  /\ vid.pc = "done"
  /\ vid.hasCloud /\ ~vid.listFails
  /\ \E n \in 1..Len(vid.objects) : vid.objects[n].json /\ vid.objects[n].fails
  /\ \E p \in ChildPositions :
       vid.videos[p[1]].cloud /\ ~vid.videos[p[1]].multiPov[p[2]].cloud

\* A cloud video and a disk video of the listing that correlate: the same
\* hash, the same Clips class, a start each and the starts within the
\* window.
CloudDiskPairs ==
  { pr \in (1..Len(LoadedVideos)) \X (1..Len(LoadedVideos)) :
      /\ LoadedVideos[pr[1]].cloud
      /\ ~LoadedVideos[pr[2]].cloud
      /\ ~CannotCorrelate(LoadedVideos[pr[1]])
      /\ ~CannotCorrelate(LoadedVideos[pr[2]])
      /\ Correlates(LoadedVideos[pr[2]], LoadedVideos[pr[1]]) }

\* The entry at position i is the video named n.
IsEntry(i, n) == vid.videos[i].name = n

\* The video named n is a child of the entry at position i.
IsChildOf(i, n) ==
  \E c \in 1..Len(vid.videos[i].multiPov) : vid.videos[i].multiPov[c].name = n

\* C21, as the code has it: in the returned list no cloud video is the
\* child of a disk video; a disk video that correlates with a cloud video
\* which is a top-level entry is the child of a cloud entry; and when the
\* listing has just the two videos, the cloud video is the only entry and
\* the disk video its only child.
C21_CloudIsParentOfDisk ==
  vid.pc = "done" =>
    /\ \A p \in ChildPositions :
         vid.videos[p[1]].multiPov[p[2]].cloud => vid.videos[p[1]].cloud
    /\ \A pr \in CloudDiskPairs :
         (\E i \in 1..Len(vid.videos) : IsEntry(i, LoadedVideos[pr[1]].name))
           => \E i \in 1..Len(vid.videos) :
                vid.videos[i].cloud /\ IsChildOf(i, LoadedVideos[pr[2]].name)
    /\ \A pr \in CloudDiskPairs :
         Len(LoadedVideos) = 2 =>
           /\ Len(vid.videos) = 1
           /\ IsEntry(1, LoadedVideos[pr[1]].name)
           /\ Len(vid.videos[1].multiPov) = 1
           /\ IsChildOf(1, LoadedVideos[pr[2]].name)

\* C21, as stated: whenever a cloud video and a disk video correlate, the
\* cloud video is a top-level entry with the disk video among its children.
C21_EveryCorrelatingPairIsGrouped ==
  vid.pc = "done" =>
    \A pr \in CloudDiskPairs :
      \E i \in 1..Len(vid.videos) :
        /\ IsEntry(i, LoadedVideos[pr[1]].name)
        /\ IsChildOf(i, LoadedVideos[pr[2]].name)

\* A disk video correlates with two cloud entries and is the child of the
\* first of them only.
C21_Witness ==
  /\ vid.pc = "done"
  /\ \E pr, qr \in CloudDiskPairs :
       /\ pr[2] = qr[2] /\ pr[1] < qr[1]
       /\ \E i, j \in 1..Len(vid.videos) :
            /\ IsEntry(i, LoadedVideos[pr[1]].name)
            /\ IsEntry(j, LoadedVideos[qr[1]].name)
            /\ IsChildOf(i, LoadedVideos[pr[2]].name)
            /\ ~IsChildOf(j, LoadedVideos[pr[2]].name)

\* C22: no failure of the storage aborts the listing: a call of
\* loadAllVideos never ends rejected, and the list it returns holds every
\* video that could be loaded.
C22_ListingNeverAborts ==
  /\ vid.pc # "rejected"
  /\ vid.pc = "done" => ListedNames = LoadableCloudNames \cup DiskNames

\* The video named n is a top-level entry of the list.
IsTopLevel(n) == \E i \in 1..Len(vid.videos) : IsEntry(i, n)

\* The positions in the order of accumulation of the top-level entries that
\* came before the n-th video and that it matches.
Candidates(n) ==
  { m \in 1..(n - 1) :
      /\ IsTopLevel(LoadedVideos[m].name)
      /\ Correlates(LoadedVideos[n], LoadedVideos[m]) }

\* The entries that have the video named n as a child.
ParentsOf(n) == { i \in 1..Len(vid.videos) : IsChildOf(i, n) }

\* C25: in the returned list a video that has a hash and a start is the
\* child of exactly one entry, the first top-level entry in the order of
\* accumulation with the same Clips class, the same hash, a start, and the
\* start within the window, and of no other; when there is no such entry,
\* it matched at most children and is a top-level entry itself.
C25_FirstMatchWins ==
  vid.pc = "done" =>
    \A n \in 1..Len(LoadedVideos) :
      ~CannotCorrelate(LoadedVideos[n]) =>
        IF Candidates(n) = {}
        THEN /\ IsTopLevel(LoadedVideos[n].name)
             /\ ParentsOf(LoadedVideos[n].name) = {}
        ELSE LET first == CHOOSE m \in Candidates(n) :
                            \A g \in Candidates(n) : m <= g
             IN  /\ ~IsTopLevel(LoadedVideos[n].name)
                 /\ Cardinality(ParentsOf(LoadedVideos[n].name)) = 1
                 /\ \A i \in ParentsOf(LoadedVideos[n].name) :
                      IsEntry(i, LoadedVideos[first].name)

\* A video matched two top-level entries and is the child of the first.
C25_Witness ==
  /\ vid.pc = "done"
  /\ \E n \in 1..Len(LoadedVideos) :
       /\ ~CannotCorrelate(LoadedVideos[n])
       /\ Cardinality(Candidates(n)) = 2
       /\ Cardinality(ParentsOf(LoadedVideos[n].name)) = 1

\* A video matched only a child of an entry and is a top-level entry.
C25_WitnessChildNoCandidate ==
  /\ vid.pc = "done"
  /\ \E n \in 1..Len(LoadedVideos) : \E m \in 1..(n - 1) :
       /\ ~CannotCorrelate(LoadedVideos[n])
       /\ ~CannotCorrelate(LoadedVideos[m])
       /\ Correlates(LoadedVideos[n], LoadedVideos[m])
       /\ ~IsTopLevel(LoadedVideos[m].name)
       /\ IsTopLevel(LoadedVideos[n].name)

\* The video has no hash or no start.
LacksHashOrStart(v) == v.uniqueHash = NoHash \/ v.start = NoStart

\* C26: a video without a hash or without a start is never the child of an
\* entry, and as an entry it has no children.
C26_IncompleteNeverCorrelated ==
  /\ \A p \in ChildPositions :
       ~LacksHashOrStart(vid.videos[p[1]].multiPov[p[2]])
  /\ \A i \in 1..Len(vid.videos) :
       LacksHashOrStart(vid.videos[i]) => vid.videos[i].multiPov = <<>>

\* A video with a start and no hash came after a video with the same start
\* and no hash; both are top-level entries.
C26_Witness ==
  /\ vid.pc = "done"
  /\ \E n \in 1..Len(LoadedVideos) : \E m \in 1..(n - 1) :
       /\ LoadedVideos[n].uniqueHash = NoHash
       /\ LoadedVideos[m].uniqueHash = NoHash
       /\ LoadedVideos[n].start # NoStart
       /\ LoadedVideos[n].start = LoadedVideos[m].start
       /\ IsTopLevel(LoadedVideos[n].name)
       /\ IsTopLevel(LoadedVideos[m].name)

\* C27: no video is among its own children, and a video that is a child
\* has no children.
C27_GroupingOneLevelDeep ==
  \A p \in ChildPositions :
    /\ vid.videos[p[1]].multiPov[p[2]].name # vid.videos[p[1]].name
    /\ vid.videos[p[1]].multiPov[p[2]].multiPov = <<>>

\* An entry has two children.
C27_Witness ==
  /\ vid.pc = "done"
  /\ \E i \in 1..Len(vid.videos) : Len(vid.videos[i].multiPov) = 2

\* The steps that resume a validation of invocation p without an answer
\* of the cloud store: the disk check completing and the bomb going off.
ResumesWithoutStore(p) == ValidateDone(p) \/ ValCloudBomb(p)

\* The awaits inside validateCloudBaseConfig.
CloudValidatePcs == {"valCloudInit", "valCloudPoll"}

\* C23: a validation of a base config with cloud storage comes to an end
\* even if the store never answers: wherever a pass waits inside
\* validateCloudBaseConfig, a step that needs no answer of the store
\* resumes it.
C23_CloudValidationTerminates ==
  \A p \in Procs :
    procs[p].pc \in CloudValidatePcs => ENABLED ResumesWithoutStore(p)

\* The part of C23 the bomb does ensure: a pass that waits for pollInit()
\* is resumed without an answer of the store.
C23_PollIsBounded ==
  \A p \in Procs :
    procs[p].pc = "valCloudPoll" => ENABLED ResumesWithoutStore(p)

\* The invocations that have a call of recorder.start(), stop() or cleanup()
\* in flight.
EngineCallsInFlight ==
  { <<"configure", p>> : p \in { q \in Procs :
                                   procs[q].pc \in {"cfgBaseStop", "cfgFlavStop"} } }
    \cup (IF wowStart.pc = "start" THEN {<<"onWowStarted", 0>>} ELSE {})
    \cup (IF wowStop.pc = "stop" THEN {<<"onWowStopped", 0>>} ELSE {})
    \cup (IF restart.pc \in {"stop", "cleanup", "start"}
          THEN {<<"restartRecorder", 0>>} ELSE {})

\* C24: at most one mutating engine call is in flight at any time.
C24_OneEngineCallInFlight == Cardinality(EngineCallsInFlight) <= 1

\* Handler h reports an activity.
ReportsActivity(h) == h.exists /\ h.activity

C29_QueuedRequestIsServed ==
  queued => \E p \in Procs : procs[p].pc # "idle" /\ procs[p].run = 1

\* C30: whenever the latch is free, no request is recorded.
C30_QueuedOnlyWhileActive == ~active => ~queued

\* C31: the latch is taken only while an invocation of manage() is in
\* progress, also after a stage's configure has rejected: a rejection
\* releases the latch.
C31_LatchReleasedAfterRejection ==
  active => \E p \in Procs : procs[p].pc # "idle"

\* C32: whenever the configuration state is Valid, every stage's configure
\* has completed with the stage's current snapshot on the current engine.
C32_ValidImpliesEveryStageApplied ==
  configValid => \A s \in Stages : applied[s]

\* C33: the manager holds no handle of a destroyed log handler: every
\* handler it reads activity and overrunning from, or would call
\* forceEndActivity on, is live.
C33_NoDestroyedHandlerHeld ==
  /\ retailLogHandler.exists => retailLogHandler.live
  /\ classicLogHandler.exists => classicLogHandler.live

\* C34: onWowStopped ends the activity of every log handler that reports
\* one when the signal arrives, of both when both do: forceEndActivity is
\* called on each of them, so that none of those activities is still
\* reported once onWowStopped has completed.
C34_WowStoppedEndsEveryActivity ==
  [][ (wowStop.pc = "idle" /\ wowStop'.pc # "idle") =>
        /\ ReportsActivity(retailLogHandler) => retailLogHandler'.forcing
        /\ ReportsActivity(classicLogHandler) => classicLogHandler'.forcing
    ]_vars

\* C35: recorder.start() is called only while the configuration state is
\* Valid, and the engine is not recording while the status sent to the
\* window is InvalidConfig.
C35_NoRecordingWhileInvalid ==
  /\ [](Status = "InvalidConfig" => obsState # "Recording")
  /\ [][ (obsState # "Starting" /\ obsState' = "Starting") => configValid ]_vars

\* C36: the preconditions of restartRecorder hold at each of its engine
\* calls, not only at its first check: cleanup() and start() are called
\* only while no log handler reports an activity, and start() only while
\* the game process is still there.
C36_RestartSafeThroughout ==
  [][ /\ (restart.pc = "stop" /\ restart'.pc = "cleanup") =>
           /\ ~ReportsActivity(retailLogHandler)
           /\ ~ReportsActivity(classicLogHandler)
      /\ (restart.pc = "cleanup" /\ restart'.pc = "start") =>
           /\ isWowRunning
           /\ ~ReportsActivity(retailLogHandler)
           /\ ~ReportsActivity(classicLogHandler) ]_vars

\* C37: no stage's configure calls recorder.stop(), and none destroys a log
\* handler, while a log handler reports an activity.
C37_ConfigureSparesActivities ==
  [][ \A p \in Procs :
        procs'[p] # procs[p] =>
          /\ procs'[p].pc \in {"cfgBaseStop", "cfgFlavStop"} =>
               /\ ~(ReportsActivity(retailLogHandler) /\ retailLogHandler.live)
               /\ ~(ReportsActivity(classicLogHandler) /\ classicLogHandler.live)
          /\ (ReportsActivity(retailLogHandler) /\ retailLogHandler.live)
               => retailLogHandler' = retailLogHandler
          /\ (ReportsActivity(classicLogHandler) /\ classicLogHandler.live)
               => classicLogHandler' = classicLogHandler ]_vars

\* configureObsBase of invocation p returns in this step.
ConfigureObsBaseReturns(p) ==
  /\ procs[p].pc \in {"cfgBaseStop", "cfgBaseInit"}
  /\ procs'[p].pc \notin {"cfgBaseStop", "cfgBaseInit", "idle"}

\* C38: when configureObsBase returns, the manager holds a cloud client iff
\* the config it applied has cloudStorage, and the video process queue
\* holds one iff that config has cloudStorage and cloudUpload; at no time
\* does more than one cloud client poll for updates.
C38_CloudClientsMatchConfig ==
  /\ [](Cardinality(clients.polling) <= 1)
  /\ [][ \A p \in Procs :
           ConfigureObsBaseReturns(p) =>
             LET config == procs[p].newConfig IN
             /\ clients'.client # 0 <=> config.cloudStorage
             /\ clients'.queue # 0 <=>
                  (config.cloudStorage /\ config.cloudUpload) ]_vars

\* How often the video named n is in the returned list, as an entry or as
\* a child.
Occurrences(n) ==
  Cardinality({ i \in 1..Len(vid.videos) : vid.videos[i].name = n })
    + Cardinality({ p \in ChildPositions :
                      vid.videos[p[1]].multiPov[p[2]].name = n })

\* C39: the fold conserves the videos: each video that was correlated is in
\* the result exactly once, as an entry or as a child of one entry, and the
\* result holds no other video.
C39_FoldConservesVideos ==
  vid.pc = "done" =>
    /\ \A k \in 1..Len(LoadedVideos) : Occurrences(LoadedVideos[k].name) = 1
    /\ ListedNames \subseteq { LoadedVideos[k].name : k \in 1..Len(LoadedVideos) }

\* Three videos were correlated: one became the child of another, one
\* stayed an entry of its own.
C39_Witness ==
  /\ vid.pc = "done"
  /\ Len(LoadedVideos) = 3
  /\ Len(vid.videos) = 2
  /\ Cardinality(ChildPositions) = 1

\* C40: no two entries of the returned list that both have a hash and a
\* start have the same hash, the same Clips class and starts within the
\* window of each other.
C40_EntriesDoNotCorrelate ==
  vid.pc = "done" =>
    \A i, j \in 1..Len(vid.videos) :
      LET A == vid.videos[i]
          B == vid.videos[j]
      IN  ( /\ i # j
            /\ ~LacksHashOrStart(A) /\ ~LacksHashOrStart(B)
            /\ A.uniqueHash = B.uniqueHash
            /\ (A.category = Clips) = (B.category = Clips) )
          => Abs(A.start - B.start) > CorrelationWindow * 1000

\* Two entries with the same hash and category whose starts are further
\* apart than the window, the later of which was correlated first, and a
\* third video that became a child.
C40_Witness ==
  /\ vid.pc = "done"
  /\ Cardinality(ChildPositions) >= 1
  /\ \E k, l \in 1..Len(LoadedVideos) :
       /\ k < l
       /\ LoadedVideos[k].start > LoadedVideos[l].start
       /\ LoadedVideos[l].start # NoStart
       /\ LoadedVideos[k].uniqueHash = LoadedVideos[l].uniqueHash
       /\ LoadedVideos[k].uniqueHash # NoHash
       /\ LoadedVideos[k].category = LoadedVideos[l].category
       /\ IsTopLevel(LoadedVideos[k].name)
       /\ IsTopLevel(LoadedVideos[l].name)
====
